---------------------------- MODULE Spec2Model ----------------------------
(***************************************************************************)
(* Model of src/src/feature_extraction.py: the per-paragraph readability   *)
(* statistics (sentence_statistics), the syllable scanner that is copied   *)
(* into count_syllables / count_monosyllables / count_polysyllables, the   *)
(* word counters and the text normalisation (preprocessing).               *)
(*                                                                         *)
(* A text is a sequence of one-character strings.  Python positions are    *)
(* 0-based; At(w, i) reads w[i] of the source.                             *)
(***************************************************************************)
EXTENDS Integers, Sequences, FiniteSets, TLC

VARIABLES
    df_raw,         \* the caller's Series of raw paragraphs (argument df_text)
    df_text,        \* the local df_text (raw until line 25, then normalised)
    df_stats,       \* the DataFrame being filled: column name -> column
    pc,             \* the statement of sentence_statistics to run next
    row,            \* Series.apply(count_dale_chall): the row to process next
    acc,            \* Series.apply(count_dale_chall): the results so far
    wordlist_ok,    \* can corpus/Dale-Chall-wordlist-3000.txt be opened
    opens,          \* number of open(path) calls made so far
    word,           \* scanner: the word being scanned
    current_pos,    \* scanner: current_pos
    word_syllables, \* scanner: word_syllables
    spc,            \* scanner: position in the loop body of one word
    text,           \* direct call of one function: its text argument
    threshold,      \* direct call of count_polysyllables: its threshold
    res,            \* direct call: the values returned so far
    fpc             \* direct call: which call sequence is being run

pipeVars == <<df_raw, df_text, df_stats, pc, row, acc, wordlist_ok, opens>>
scanVars == <<word, current_pos, word_syllables, spc>>
callVars == <<text, threshold, res, fpc>>
vars == <<df_raw, df_text, df_stats, pc, row, acc, wordlist_ok, opens,
          word, current_pos, word_syllables, spc, text, threshold, res, fpc>>

----------------------------------------------------------------------------
(* Bounds of the model.                                                    *)

\* longest raw paragraph of a one-paragraph run
MaxRawLen == 3
\* most paragraphs of a batch run
MaxParas == 2
\* longest paragraph of a batch run
MaxBatchLen == 1
\* longest word given to the scanner
MaxWordLen == 5
\* longest normalised text given to a counter called directly
MaxTextLen == 6
\* largest threshold given to count_polysyllables called directly
MaxThreshold == 3
\* longest raw text given to preprocessing called directly
MaxPreLen == 4

----------------------------------------------------------------------------
(* Characters.                                                             *)

\* the string "aeiouyäöü" of the membership tests, and the complement class
\* of cc_pattern
Vowels == {"a", "e", "i", "o", "u", "y", "ä", "ö", "ü"}

LowerAlpha == <<"a", "b", "c", "d", "e", "f", "g", "h", "i", "j", "k", "l", "m",
                "n", "o", "p", "q", "r", "s", "t", "u", "v", "w", "x", "y", "z",
                "ä", "ö", "ü">>
UpperAlpha == <<"A", "B", "C", "D", "E", "F", "G", "H", "I", "J", "K", "L", "M",
                "N", "O", "P", "Q", "R", "S", "T", "U", "V", "W", "X", "Y", "Z",
                "Ä", "Ö", "Ü">>
Digits == {"0", "1", "2", "3", "4", "5", "6", "7", "8", "9"}

Range(s) == {s[i] : i \in DOMAIN s}

\* regex \d
IsDigit(c) == c \in Digits
\* regex \s, and the separators of str.split()
IsSpace(c) == c \in {" ", "\t", "\n", "\r"}
\* regex \w: letters, digits and the underscore
IsWordChar(c) == c \in Range(LowerAlpha) \cup Range(UpperAlpha) \cup Digits \cup {"_"}
IsUpper(c) == c \in Range(UpperAlpha)
\* regex . (no DOTALL): any character but the newline
IsAnyButNewline(c) == c # "\n"

\* str.lower() on one character
LowerChar(c) ==
    IF IsUpper(c)
    THEN LowerAlpha[CHOOSE i \in DOMAIN UpperAlpha : UpperAlpha[i] = c]
    ELSE c

\* w[i] with the source's 0-based index
At(w, i) == w[i + 1]

----------------------------------------------------------------------------
(* Strings.                                                                *)

\* str.lower()
StrLower(s) == IF s = <<>> THEN <<>> ELSE [i \in 1..Len(s) |-> LowerChar(s[i])]

\* re.sub(r"\d", "", x)
RemoveDigits(s) == SelectSeq(s, LAMBDA c : ~IsDigit(c))

\* Series.str.count(r"\w") on one element
CountWordChars(s) == Len(SelectSeq(s, IsWordChar))

\* Series.str.count(",") on one element
CountCommas(s) == Len(SelectSeq(s, LAMBDA c : c = ","))

\* Series.str.count(".") on one element: the pattern is a regular expression
\* and matches every character but the newline
CountDots(s) == Len(SelectSeq(s, IsAnyButNewline))

\* Series.str.count("\?") on one element
CountQuestionMarks(s) == Len(SelectSeq(s, LAMBDA c : c = "?"))

\* Series.str.count("!") on one element
CountBangs(s) == Len(SelectSeq(s, LAMBDA c : c = "!"))

\* str.split(): the maximal runs of non-whitespace characters, in order
RECURSIVE SplitFrom(_, _)
SplitFrom(s, cur) ==
    IF s = <<>> THEN (IF cur = <<>> THEN <<>> ELSE <<cur>>)
    ELSE IF IsSpace(Head(s))
         THEN (IF cur = <<>> THEN <<>> ELSE <<cur>>) \o SplitFrom(Tail(s), <<>>)
         ELSE SplitFrom(Tail(s), Append(cur, Head(s)))

Split(s) == SplitFrom(s, <<>>)

\* all texts over the characters C of length at most n
Texts(C, n) == UNION {[1..k -> C] : k \in 0..n}

----------------------------------------------------------------------------
(* The syllable scanner.  The source holds three copies of the loop, one   *)
(* in each of count_syllables, count_monosyllables and count_polysyllables;*)
(* each copy is modelled by its own operators.                             *)

\* cc_pattern.match(word): the word starts with two or more characters that
\* are not in the vowel class
CcMatch(w) == Len(w) >= 2 /\ At(w, 0) \notin Vowels /\ At(w, 1) \notin Vowels

\* the while loop of count_syllables, entered with current_pos = p and
\* word_syllables = n; its value is word_syllables at loop exit
RECURSIVE SylScan(_, _, _)
SylScan(w, p, n) ==
    IF p < 0 THEN n
    ELSE IF At(w, p) \in Vowels
         THEN IF p - 1 <= 0 THEN n
              ELSE SylScan(w, p - 2, IF At(w, p - 1) \notin Vowels THEN n + 1 ELSE n)
         ELSE SylScan(w, p - 1, n)

\* one iteration of "for word in words" of count_syllables: word_syllables
\* when it is added to sentence_syllables
SylWord(w) ==
    SylScan(w, Len(w) - 1, 1) - (IF CcMatch(w) /\ Len(w) > 2 THEN 1 ELSE 0)

RECURSIVE SylSum(_)
SylSum(ws) == IF ws = <<>> THEN 0 ELSE SylWord(Head(ws)) + SylSum(Tail(ws))

count_syllables(t) == SylSum(Split(t))

\* mutant: the break test "current_pos < 0" for "<= 0"
RECURSIVE MonoScanLate(_, _, _)
MonoScanLate(w, p, n) ==
    IF p < 0 THEN n
    ELSE IF At(w, p) \in Vowels
         THEN IF p - 1 < 0 THEN n
              ELSE MonoScanLate(w, p - 2, IF At(w, p - 1) \notin Vowels THEN n + 1 ELSE n)
         ELSE MonoScanLate(w, p - 1, n)

\* the while loop of count_monosyllables
RECURSIVE MonoScan(_, _, _)
MonoScan(w, p, n) ==
    IF p < 0 THEN n
    ELSE IF At(w, p) \in Vowels
         THEN IF p - 1 <= 0 THEN n
              ELSE MonoScan(w, p - 2, IF At(w, p - 1) \notin Vowels THEN n + 1 ELSE n)
         ELSE MonoScan(w, p - 1, n)

\* word_syllables of count_monosyllables when it is compared with 1
MonoWord(w) ==
    MonoScan(w, Len(w) - 1, 1) - (IF CcMatch(w) /\ Len(w) > 2 THEN 1 ELSE 0)

IsMono(w) == MonoWord(w) = 1

count_monosyllables(t) == Len(SelectSeq(Split(t), IsMono))

\* the while loop of count_polysyllables
RECURSIVE PolyScan(_, _, _)
PolyScan(w, p, n) ==
    IF p < 0 THEN n
    ELSE IF At(w, p) \in Vowels
         THEN IF p - 1 <= 0 THEN n
              ELSE PolyScan(w, p - 2, IF At(w, p - 1) \notin Vowels THEN n + 1 ELSE n)
         ELSE PolyScan(w, p - 1, n)

\* word_syllables of count_polysyllables when it is compared with threshold
PolyWord(w) ==
    PolyScan(w, Len(w) - 1, 1) - (IF CcMatch(w) /\ Len(w) > 2 THEN 1 ELSE 0)

\* mutant: "word_syllables > threshold" for ">="
count_polysyllables_gt(t, th) ==
    LET IsPoly(w) == PolyWord(w) > th IN Len(SelectSeq(Split(t), IsPoly))


count_polysyllables(t, th) ==
    LET IsPoly(w) == PolyWord(w) >= th IN Len(SelectSeq(Split(t), IsPoly))

count_long_words(t, th) ==
    LET IsLong(w) == Len(w) >= th IN Len(SelectSeq(Split(t), IsLong))

----------------------------------------------------------------------------
(* The Dale-Chall word list.                                               *)

\* stand-in content of corpus/Dale-Chall-wordlist-3000.txt: one word a line
DaleChallFile == << <<"a", "\n">>, <<"b", "a", "\n">>, <<"T", "h", "e", "\n">> >>

IsNewline(c) == c = "\n"

\* line.rstrip("\n")
RECURSIVE RStripNewline(_)
RStripNewline(l) ==
    IF l # <<>> /\ l[Len(l)] = "\n" THEN RStripNewline(SubSeq(l, 1, Len(l) - 1)) ELSE l

\* [line.rstrip("\n").lower() for line in open(path)]
dale_chall_wordlist ==
    {StrLower(RStripNewline(DaleChallFile[i])) : i \in DOMAIN DaleChallFile}

\* the counting loop of count_dale_chall, once the list is loaded
count_dale_chall(t) ==
    LET IsDifficult(w) == w \notin dale_chall_wordlist
    IN Len(SelectSeq(Split(t), IsDifficult))

----------------------------------------------------------------------------
(* preprocessing.                                                          *)

IsHyphen(c) == c = "-"
IsPunct(c) == ~IsWordChar(c) /\ ~IsSpace(c)

\* re.sub(r"[^\w\s]", "", x)
RemovePunct(s) == SelectSeq(s, LAMBDA c : ~IsPunct(c))

\* re.sub(r"\-", " ", x)
HyphenToSpace(s) ==
    IF s = <<>> THEN <<>> ELSE [i \in 1..Len(s) |-> IF IsHyphen(s[i]) THEN " " ELSE s[i]]

\* re.sub(r"\s+", " ", x): every maximal run of whitespace becomes one space
RECURSIVE CollapseSpace(_)
CollapseSpace(s) ==
    IF s = <<>> THEN <<>>
    ELSE IF IsSpace(Head(s))
         THEN IF Len(s) >= 2 /\ IsSpace(s[2])
              THEN CollapseSpace(Tail(s))
              ELSE <<" ">> \o CollapseSpace(Tail(s))
         ELSE <<Head(s)>> \o CollapseSpace(Tail(s))

\* mutant: whitespace is collapsed before the hyphens become spaces
preprocess_text_early_collapse(x) ==
    RemovePunct(HyphenToSpace(CollapseSpace(RemoveDigits(StrLower(x)))))

\* mutant: the punctuation is not removed
preprocess_text_keep_punct(x) ==
    CollapseSpace(HyphenToSpace(RemoveDigits(StrLower(x))))

\* the five steps of preprocessing on one element of the Series
preprocess_text(x) ==
    CollapseSpace(RemovePunct(HyphenToSpace(RemoveDigits(StrLower(x)))))

\* preprocessing on the Series
preprocessing(df) ==
    IF df = <<>> THEN <<>> ELSE [i \in 1..Len(df) |-> preprocess_text(df[i])]

----------------------------------------------------------------------------
(* Floating-point columns.  A value is [k, n, d]: k = "fin" is the number  *)
(* n / d (d > 0), k = "inf" is the infinity of sign n, k = "nan" is        *)
(* not-a-number.  A ratio of two counts is in units of 1; a score, and a   *)
(* coefficient of a formula, is in units of 1/10000 (206.835 is 2068350).  *)
(* Rounding is not modelled.                                               *)

FNaN == [k |-> "nan", n |-> 0, d |-> 1]
FInf(sign) == [k |-> "inf", n |-> sign, d |-> 1]
FFin(num, den) == [k |-> "fin", n |-> num, d |-> den]

Sign(x) == IF x > 0 THEN 1 ELSE IF x < 0 THEN -1 ELSE 0

\* mutant: a zero divisor is special-cased to the ratio 0
FDivGuarded(a, b) ==
    IF b = 0 THEN FFin(0, 1) ELSE FFin(a * Sign(b), b * Sign(b))

\* integer column / integer column, a ratio: pandas does not raise on a zero
\* divisor, it yields nan (0 / 0) or an infinity
FDiv(a, b) ==
    IF b = 0 THEN (IF a = 0 THEN FNaN ELSE FInf(Sign(a)))
    ELSE FFin(a * Sign(b), b * Sign(b))

\* the constant c as a score
FConst(c) == FFin(c, 1)

\* coefficient c # 0 times the ratio x, a score
FMul(c, x) ==
    CASE x.k = "nan" -> FNaN
      [] x.k = "inf" -> FInf(Sign(c) * x.n)
      [] OTHER -> FFin(c * x.n, x.d)

\* x + y
FAdd(x, y) ==
    CASE x.k = "nan" \/ y.k = "nan" -> FNaN
      [] x.k = "inf" /\ y.k = "inf" -> IF x.n = y.n THEN x ELSE FNaN
      [] x.k = "inf" -> x
      [] y.k = "inf" -> y
      [] OTHER -> FFin(x.n * y.d + y.n * x.d, x.d * y.d)

\* ratio x > a / b for integers a, b with b > 0; a comparison with nan is
\* False
FGreater(x, a, b) ==
    CASE x.k = "nan" -> FALSE
      [] x.k = "inf" -> x.n > 0
      [] OTHER -> x.n * b > a * x.d

----------------------------------------------------------------------------
(* sentence_statistics, one action per statement.                          *)

\* the statements in source order; pc names the next one
Program == <<"num_comma", "num_sentences", "preprocessing", "num_words",
             "num_letters", "num_syllables", "num_monosyllables",
             "num_polysyllables_2", "num_polysyllables_3", "num_polysyllables_5",
             "num_long_3", "num_long_5", "num_long_8", "num_long_10", "num_long_15",
             "flesch_reading_ease", "flesch_grade_level", "flesch_modified",
             "num_not_dale_chall", "dale_chall_score", "dale_chall_bonus",
             "return">>

After(stmt) ==
    LET i == CHOOSE j \in DOMAIN Program : Program[j] = stmt
    IN IF i = Len(Program) THEN "done" ELSE Program[i + 1]

PolyCol == (2 :> "num_polysyllables_2") @@ (3 :> "num_polysyllables_3")
           @@ (5 :> "num_polysyllables_5")
LongCol == (3 :> "num_long_3") @@ (5 :> "num_long_5") @@ (8 :> "num_long_8")
           @@ (10 :> "num_long_10") @@ (15 :> "num_long_15")

Rows == 1..Len(df_text)
HasCol(c) == c \in DOMAIN df_stats

\* df_stats[c] = <column>, then the next statement
Assign(c, col) ==
    /\ df_stats' = [x \in DOMAIN df_stats \cup {c} |-> IF x = c THEN col ELSE df_stats[x]]
    /\ pc' = After(pc)

CountComma ==
    /\ pc = "num_comma"
    /\ Assign("num_comma", [i \in Rows |-> CountCommas(df_text[i])])
    /\ UNCHANGED <<df_raw, df_text, row, acc, wordlist_ok, opens, scanVars, callVars>>

CountSentences ==
    /\ pc = "num_sentences"
    /\ Assign("num_sentences",
           [i \in Rows |->
               CountDots(df_text[i]) + CountQuestionMarks(df_text[i])
               + CountBangs(df_text[i])])
    /\ UNCHANGED <<df_raw, df_text, row, acc, wordlist_ok, opens, scanVars, callVars>>

Preprocess ==
    /\ pc = "preprocessing"
    /\ df_text' = preprocessing(df_text)
    /\ pc' = After(pc)
    /\ UNCHANGED <<df_raw, df_stats, row, acc, wordlist_ok, opens, scanVars, callVars>>

CountWords ==
    /\ pc = "num_words"
    /\ Assign("num_words", [i \in Rows |-> Len(Split(df_text[i]))])
    /\ UNCHANGED <<df_raw, df_text, row, acc, wordlist_ok, opens, scanVars, callVars>>

CountLetters ==
    /\ pc = "num_letters"
    /\ Assign("num_letters", [i \in Rows |-> CountWordChars(df_text[i])])
    /\ UNCHANGED <<df_raw, df_text, row, acc, wordlist_ok, opens, scanVars, callVars>>

CountSyllables ==
    /\ pc = "num_syllables"
    /\ Assign("num_syllables", [i \in Rows |-> count_syllables(df_text[i])])
    /\ UNCHANGED <<df_raw, df_text, row, acc, wordlist_ok, opens, scanVars, callVars>>

CountMonosyllables ==
    /\ pc = "num_monosyllables"
    /\ Assign("num_monosyllables", [i \in Rows |-> count_monosyllables(df_text[i])])
    /\ UNCHANGED <<df_raw, df_text, row, acc, wordlist_ok, opens, scanVars, callVars>>

CountPolysyllables ==
    /\ \E t \in DOMAIN PolyCol :
          /\ pc = PolyCol[t]
          /\ Assign(PolyCol[t], [i \in Rows |-> count_polysyllables(df_text[i], t)])
    /\ UNCHANGED <<df_raw, df_text, row, acc, wordlist_ok, opens, scanVars, callVars>>

CountLongWords ==
    /\ \E t \in DOMAIN LongCol :
          /\ pc = LongCol[t]
          /\ Assign(LongCol[t], [i \in Rows |-> count_long_words(df_text[i], t)])
    /\ UNCHANGED <<df_raw, df_text, row, acc, wordlist_ok, opens, scanVars, callVars>>

\* num_words / num_sentences and <count> / num_words of row i
WordsPerSentence(i) == FDiv(df_stats["num_words"][i], df_stats["num_sentences"][i])
PerWord(c, i) == FDiv(df_stats[c][i], df_stats["num_words"][i])
Per100Words(c, i) == FDiv(df_stats[c][i] * 100, df_stats["num_words"][i])

\* 206.835 - 1.015 * (words / sentences) - 84.6 * (syllables / words)
FleschReadingEase ==
    /\ pc = "flesch_reading_ease"
    /\ Assign("flesch_reading_ease",
           [i \in Rows |->
               FAdd(FAdd(FConst(2068350),
                         FMul(-10150, WordsPerSentence(i))),
                    FMul(-846000, PerWord("num_syllables", i)))])
    /\ UNCHANGED <<df_raw, df_text, row, acc, wordlist_ok, opens, scanVars, callVars>>

\* 0.39 * (words / sentences) + 11.8 * (syllables / words) - 15.59
FleschGradeLevel ==
    /\ pc = "flesch_grade_level"
    /\ Assign("flesch_grade_level",
           [i \in Rows |->
               FAdd(FAdd(FMul(3900, WordsPerSentence(i)),
                         FMul(118000, PerWord("num_syllables", i))),
                    FConst(-155900))])
    /\ UNCHANGED <<df_raw, df_text, row, acc, wordlist_ok, opens, scanVars, callVars>>

\* 1.599 * (monosyllables * 100 / words) - 1.015 * (words / sentences) - 31.517
FleschModified ==
    /\ pc = "flesch_modified"
    /\ Assign("flesch_modified",
           [i \in Rows |->
               FAdd(FAdd(FMul(15990, Per100Words("num_monosyllables", i)),
                         FMul(-10150, WordsPerSentence(i))),
                    FConst(-315170))])
    /\ UNCHANGED <<df_raw, df_text, row, acc, wordlist_ok, opens, scanVars, callVars>>

\* df_text.apply(count_dale_chall), one row: the call opens the word list
\* file, reads it and counts
ApplyDaleChall ==
    /\ pc = "num_not_dale_chall"
    /\ row <= Len(df_text)
    /\ wordlist_ok
    /\ opens' = opens + 1
    /\ acc' = Append(acc, count_dale_chall(df_text[row]))
    /\ row' = row + 1
    /\ UNCHANGED <<df_raw, df_text, df_stats, pc, wordlist_ok, scanVars, callVars>>

\* the same call when open(path) raises: the exception leaves
\* sentence_statistics
DaleChallRaise ==
    /\ pc = "num_not_dale_chall"
    /\ row <= Len(df_text)
    /\ ~wordlist_ok
    /\ opens' = opens + 1
    /\ pc' = "error"
    /\ UNCHANGED <<df_raw, df_text, df_stats, row, acc, wordlist_ok, scanVars, callVars>>

\* apply has visited every row: the column is stored
AssignDaleChall ==
    /\ pc = "num_not_dale_chall"
    /\ row > Len(df_text)
    /\ Assign("num_not_dale_chall", acc)
    /\ UNCHANGED <<df_raw, df_text, row, acc, wordlist_ok, opens, scanVars, callVars>>

\* 0.1579 * (not_dale_chall * 100 / words) + 0.0496 * (words / sentences)
DaleChallScore ==
    /\ pc = "dale_chall_score"
    /\ Assign("dale_chall_score",
           [i \in Rows |->
               FAdd(FMul(1579, Per100Words("num_not_dale_chall", i)),
                    FMul(496, WordsPerSentence(i)))])
    /\ UNCHANGED <<df_raw, df_text, row, acc, wordlist_ok, opens, scanVars, callVars>>

\* df_stats.loc[not_dale_chall / words > 0.05, "dale_chall_score"] += 3.6365
DaleChallBonus ==
    /\ pc = "dale_chall_bonus"
    /\ Assign("dale_chall_score",
           [i \in Rows |->
               IF FGreater(PerWord("num_not_dale_chall", i), 5, 100)
               THEN FAdd(df_stats["dale_chall_score"][i], FConst(36365))
               ELSE df_stats["dale_chall_score"][i]])
    /\ UNCHANGED <<df_raw, df_text, row, acc, wordlist_ok, opens, scanVars, callVars>>

Return ==
    /\ pc = "return"
    /\ pc' = "done"
    /\ UNCHANGED <<df_raw, df_text, df_stats, row, acc, wordlist_ok, opens, scanVars, callVars>>

\* characters of the raw paragraph of a one-paragraph run
RawChars == {"A", "a", "b", "1", "_", "-", ",", ".", "?", "!", " ", "\n"}
\* characters of the paragraphs of a batch run
BatchChars == {"a", " ", "."}

Batches(P, n) == UNION {[1..k -> P] : k \in 0..n}

\* the state at the call: a Series of one paragraph, or a batch of up to
\* MaxParas short ones (the empty Series included)
PipeInit ==
    /\ \/ \E p \in Texts(RawChars, MaxRawLen) : df_raw = <<p>>
       \/ df_raw \in Batches(Texts(BatchChars, MaxBatchLen), MaxParas)
    /\ df_text = df_raw
    /\ df_stats = <<>>
    /\ pc = "num_comma"
    /\ row = 1
    /\ acc = <<>>
    /\ wordlist_ok \in BOOLEAN
    /\ opens = 0

PipeIdle ==
    /\ df_raw = <<>> /\ df_text = <<>> /\ df_stats = <<>> /\ pc = "idle"
    /\ row = 1 /\ acc = <<>> /\ wordlist_ok = TRUE /\ opens = 0

ScanIdle == word = <<>> /\ current_pos = 0 /\ word_syllables = 0 /\ spc = "idle"

CallIdle == text = <<>> /\ threshold = 0 /\ res = <<>> /\ fpc = "idle"

Init == PipeInit /\ ScanIdle /\ CallIdle

Next ==
    \/ CountComma
    \/ CountSentences
    \/ Preprocess
    \/ CountWords
    \/ CountLetters
    \/ CountSyllables
    \/ CountMonosyllables
    \/ CountPolysyllables
    \/ CountLongWords
    \/ FleschReadingEase
    \/ FleschGradeLevel
    \/ FleschModified
    \/ ApplyDaleChall
    \/ DaleChallRaise
    \/ AssignDaleChall
    \/ DaleChallScore
    \/ DaleChallBonus
    \/ Return

Spec == Init /\ [][Next]_vars

----------------------------------------------------------------------------
(* The scanner of count_syllables on one word, one action per path through *)
(* the loop body.                                                          *)

\* characters of the words given to the scanner
ScanChars == {"a", "y", "ü", "b", "t"}

ScanWords == Texts(ScanChars, MaxWordLen) \ {<<>>}

\* "for word in words" reaches a word: str.split() yields no empty word
ScanInit ==
    /\ word \in ScanWords
    /\ current_pos = 0
    /\ word_syllables = 0
    /\ spc = "for"

\* word_syllables = 1; current_pos = len(word) - 1
WordStart ==
    /\ spc = "for"
    /\ word_syllables' = 1
    /\ current_pos' = Len(word) - 1
    /\ spc' = "while"
    /\ UNCHANGED <<word, pipeVars, callVars>>

\* the current character is not a vowel: only current_pos -= 1
ScanConsonant ==
    /\ spc = "while"
    /\ current_pos >= 0
    /\ At(word, current_pos) \notin Vowels
    /\ current_pos' = current_pos - 1
    /\ UNCHANGED <<word, word_syllables, spc, pipeVars, callVars>>

\* a vowel, and after current_pos -= 1 the test current_pos <= 0 holds: break
ScanVowelBreak ==
    /\ spc = "while"
    /\ current_pos >= 0
    /\ At(word, current_pos) \in Vowels
    /\ current_pos - 1 <= 0
    /\ current_pos' = current_pos - 1
    /\ spc' = "cc"
    /\ UNCHANGED <<word, word_syllables, pipeVars, callVars>>

\* mutant: the character before the vowel is counted whatever it is
ScanVowelPairAlways ==
    /\ spc = "while"
    /\ current_pos >= 0
    /\ At(word, current_pos) \in Vowels
    /\ current_pos - 1 > 0
    /\ word_syllables' = word_syllables + 1
    /\ current_pos' = current_pos - 2
    /\ UNCHANGED <<word, spc, pipeVars, callVars>>

\* a vowel with current_pos > 0 after the decrement: the character before it
\* is read, counted if it is not a vowel, and skipped
ScanVowelPair ==
    /\ spc = "while"
    /\ current_pos >= 0
    /\ At(word, current_pos) \in Vowels
    /\ current_pos - 1 > 0
    /\ word_syllables' = IF At(word, current_pos - 1) \notin Vowels
                         THEN word_syllables + 1 ELSE word_syllables
    /\ current_pos' = current_pos - 2
    /\ UNCHANGED <<word, spc, pipeVars, callVars>>

\* while current_pos >= 0 fails
LoopExit ==
    /\ spc = "while"
    /\ current_pos < 0
    /\ spc' = "cc"
    /\ UNCHANGED <<word, current_pos, word_syllables, pipeVars, callVars>>

\* mutant: the test len(word) > 2 is missing
LeadingClusterAnyLength ==
    /\ spc = "cc"
    /\ word_syllables' = IF CcMatch(word) THEN word_syllables - 1 ELSE word_syllables
    /\ spc' = "done"
    /\ UNCHANGED <<word, current_pos, pipeVars, callVars>>

\* if cc_pattern.match(word) and len(word) > 2: word_syllables -= 1
LeadingCluster ==
    /\ spc = "cc"
    /\ word_syllables' = IF CcMatch(word) /\ Len(word) > 2
                         THEN word_syllables - 1 ELSE word_syllables
    /\ spc' = "done"
    /\ UNCHANGED <<word, current_pos, pipeVars, callVars>>

ScanNext ==
    \/ WordStart
    \/ ScanConsonant
    \/ ScanVowelBreak
    \/ ScanVowelPair
    \/ LoopExit
    \/ LeadingCluster

InitScan == ScanInit /\ PipeIdle /\ CallIdle

SpecScan == InitScan /\ [][ScanNext]_vars

----------------------------------------------------------------------------
(* Direct calls of the counters on a normalised text, and of preprocessing *)
(* on a raw text.                                                          *)

\* characters of a normalised text
NormChars == {"a", "b", " "}
\* characters of a raw text
PreChars == {"A", "a", "1", "-", ".", "_", " ", "\n"}

\* what preprocessing returns: no two adjacent spaces
NoSpaceRun(t) == \A i \in 1..(Len(t) - 1) : ~(t[i] = " " /\ t[i + 1] = " ")
NormTexts == {t \in Texts(NormChars, MaxTextLen) : NoSpaceRun(t)}

Put(f, key, v) == [x \in DOMAIN f \cup {key} |-> IF x = key THEN v ELSE f[x]]

CallInit ==
    /\ \/ /\ fpc = "count"
          /\ text \in NormTexts
          /\ threshold \in 0..MaxThreshold
       \/ /\ fpc = "preprocessing"
          /\ text \in Texts(PreChars, MaxPreLen)
          /\ threshold = 0
    /\ res = <<>>

CallCountSyllables ==
    /\ fpc = "count"
    /\ "count_syllables" \notin DOMAIN res
    /\ res' = Put(res, "count_syllables", count_syllables(text))
    /\ UNCHANGED <<text, threshold, fpc, pipeVars, scanVars>>

CallCountMonosyllables ==
    /\ fpc = "count"
    /\ "count_monosyllables" \notin DOMAIN res
    /\ res' = Put(res, "count_monosyllables", count_monosyllables(text))
    /\ UNCHANGED <<text, threshold, fpc, pipeVars, scanVars>>

CallCountPolysyllables ==
    /\ fpc = "count"
    /\ "count_polysyllables" \notin DOMAIN res
    /\ res' = Put(res, "count_polysyllables", count_polysyllables(text, threshold))
    /\ UNCHANGED <<text, threshold, fpc, pipeVars, scanVars>>

\* preprocessing on the one-element Series of the text
CallPreprocessing ==
    /\ fpc = "preprocessing"
    /\ res' = Put(res, "once", preprocessing(<<text>>))
    /\ fpc' = "again"
    /\ UNCHANGED <<text, threshold, pipeVars, scanVars>>

\* preprocessing on what the first call returned
CallPreprocessingAgain ==
    /\ fpc = "again"
    /\ res' = Put(res, "twice", preprocessing(res["once"]))
    /\ fpc' = "end"
    /\ UNCHANGED <<text, threshold, pipeVars, scanVars>>

CallNext ==
    \/ CallCountSyllables
    \/ CallCountMonosyllables
    \/ CallCountPolysyllables
    \/ CallPreprocessing
    \/ CallPreprocessingAgain

InitCall == CallInit /\ PipeIdle /\ ScanIdle

SpecCall == InitCall /\ [][CallNext]_vars

----------------------------------------------------------------------------
(* Properties.                                                             *)

\* the characters the scanned word is read at, 0-based
IsVowelAt(w, i) == At(w, i) \in Vowels
Bit(b) == IF b THEN 1 ELSE 0

RECURSIVE SumLen(_)
SumLen(ws) == IF ws = <<>> THEN 0 ELSE Len(Head(ws)) + SumLen(Tail(ws))

\* the tokens of a normalised text whose syllable number is 0
ZeroSyllableWords(t) ==
    LET IsZero(w) == SylWord(w) = 0 IN Len(SelectSeq(Split(t), IsZero))

\* C1 as stated: once the monosyllable and the polysyllable (threshold 2)
\* columns exist, in every row their sum is the number of word tokens.
C1_Partition ==
    HasCol("num_polysyllables_2") =>
        \A i \in Rows :
            df_stats["num_monosyllables"][i] + df_stats["num_polysyllables_2"][i]
                = df_stats["num_words"][i]

\* C1 amended: in every row the monosyllable count plus the polysyllable
\* (threshold 2) count plus the number of tokens whose syllable number is 0
\* is the number of word tokens; so the sum of the two counters never
\* exceeds num_words and equals it exactly when no token scans to 0.
C1_PartitionWithZero ==
    HasCol("num_polysyllables_2") =>
        \A i \in Rows :
            /\ df_stats["num_monosyllables"][i] + df_stats["num_polysyllables_2"][i]
                  + ZeroSyllableWords(df_text[i]) = df_stats["num_words"][i]
            /\ df_stats["num_monosyllables"][i] + df_stats["num_polysyllables_2"][i]
                  <= df_stats["num_words"][i]

\* a finished run with a row in which some token is counted by neither counter
C1_Witness ==
    /\ pc = "done"
    /\ \E i \in Rows :
          /\ ZeroSyllableWords(df_text[i]) >= 1
          /\ df_stats["num_monosyllables"][i] + df_stats["num_polysyllables_2"][i]
                < df_stats["num_words"][i]

IsTerminator(c) == c \in {".", "?", "!"}

\* C2: num_sentences is the number of '.', '?' and '!' characters of the raw
\* paragraph and num_comma the number of its ',' characters.
C2_RawCounts ==
    HasCol("num_sentences") =>
        \A i \in DOMAIN df_raw :
            /\ df_stats["num_sentences"][i] = Len(SelectSeq(df_raw[i], IsTerminator))
            /\ df_stats["num_comma"][i] = Len(SelectSeq(df_raw[i], LAMBDA c : c = ","))

\* the increments and the result of a word as C3 states them: at a vowel
\* with a character before it, that character is inspected
RECURSIVE C3_StatedIncrements(_, _)
C3_StatedIncrements(w, p) ==
    IF p < 0 THEN 0
    ELSE IF IsVowelAt(w, p)
         THEN IF p >= 1
              THEN Bit(~IsVowelAt(w, p - 1)) + C3_StatedIncrements(w, p - 2)
              ELSE 0
         ELSE C3_StatedIncrements(w, p - 1)

\* the same with the character before the vowel inspected only when it is
\* not the first character of the word
RECURSIVE C3_AmendedIncrements(_, _)
C3_AmendedIncrements(w, p) ==
    IF p < 0 THEN 0
    ELSE IF IsVowelAt(w, p)
         THEN IF p >= 2
              THEN Bit(~IsVowelAt(w, p - 1)) + C3_AmendedIncrements(w, p - 2)
              ELSE 0
         ELSE C3_AmendedIncrements(w, p - 1)

LeadingClusterFires(w) ==
    Len(w) > 2 /\ ~IsVowelAt(w, 0) /\ ~IsVowelAt(w, 1)

\* C3 as stated: at every scan position holding a vowel with a character
\* before it, the count grows by 1 exactly when that character is a
\* consonant and the scan moves past both; the result of the word is 1 plus
\* these increments, minus 1 if the leading-cluster rule fires.
C3_ScannerStep ==
    /\ [][(spc = "while" /\ current_pos >= 1 /\ IsVowelAt(word, current_pos)) =>
            /\ word_syllables' = word_syllables + Bit(~IsVowelAt(word, current_pos - 1))
            /\ current_pos' = current_pos - 2]_vars
    /\ [](spc = "done" =>
            word_syllables = 1 + C3_StatedIncrements(word, Len(word) - 1)
                               - Bit(LeadingClusterFires(word)))

\* C3 amended: the character before a vowel is inspected (and counted when
\* it is a consonant, the scan then moving past both) only when the vowel is
\* at 0-based index 2 or more; a vowel at index 0 or 1 ends the scan with no
\* increment.  The result of the word is 1 plus these increments, minus 1 if
\* the leading-cluster rule fires.
C3_ScannerStepAmended ==
    /\ [][/\ (spc = "while" /\ current_pos >= 2 /\ IsVowelAt(word, current_pos)) =>
               /\ word_syllables' = word_syllables + Bit(~IsVowelAt(word, current_pos - 1))
               /\ current_pos' = current_pos - 2
               /\ spc' = "while"
          /\ (spc = "while" /\ current_pos \in {0, 1} /\ IsVowelAt(word, current_pos)) =>
               /\ word_syllables' = word_syllables
               /\ spc' = "cc"]_vars
    /\ [](spc = "done" =>
            word_syllables = 1 + C3_AmendedIncrements(word, Len(word) - 1)
                               - Bit(LeadingClusterFires(word)))

\* a scanned word with a counted pair, whose second character is a vowel that
\* follows a consonant and is reached by the scan
C3_Witness ==
    /\ spc = "done"
    /\ Len(word) = 4
    /\ ~IsVowelAt(word, 0) /\ IsVowelAt(word, 1)
    /\ ~IsVowelAt(word, 2) /\ IsVowelAt(word, 3)
    /\ word_syllables = 2

\* C4: the syllable number of a word is never negative, and it is at least 1
\* when the word has at most 2 characters or does not start with two
\* non-vowel characters.
C4_LowerBound ==
    spc = "done" =>
        /\ word_syllables >= 0
        /\ (Len(word) <= 2 \/ IsVowelAt(word, 0) \/ IsVowelAt(word, 1))
              => word_syllables >= 1

\* a word of more than 2 characters starting with two non-vowels that scans
\* to 0, and so meets the bound
C4_Witness ==
    /\ spc = "done"
    /\ Len(word) > 2
    /\ ~IsVowelAt(word, 0) /\ ~IsVowelAt(word, 1)
    /\ word_syllables = 0

\* C5: when the word list cannot be read, the run fails before anything is
\* computed: no column exists and the run never returns.
C5_FailFast ==
    ~wordlist_ok => (DOMAIN df_stats = {} /\ pc \in {"num_comma", "error"})

\* C6: the word list file is opened at most once, and exactly once in a
\* finished run over one or more paragraphs.
C6_LoadOnce ==
    /\ opens <= 1
    /\ (pc = "done" /\ Len(df_raw) >= 1) => opens = 1

RECURSIVE SumSyllables(_)
SumSyllables(ws) ==
    IF ws = <<>> THEN 0 ELSE count_syllables(Head(ws)) + SumSyllables(Tail(ws))

\* C7: on every normalised text, count_monosyllables is the number of tokens
\* that count_syllables gives 1, count_polysyllables the number it gives at
\* least the threshold, and count_syllables the sum over the tokens.
C7_ScannerCopiesAgree ==
    /\ "count_monosyllables" \in DOMAIN res =>
          res["count_monosyllables"]
              = Len(SelectSeq(Split(text), LAMBDA w : count_syllables(w) = 1))
    /\ "count_polysyllables" \in DOMAIN res =>
          res["count_polysyllables"]
              = Len(SelectSeq(Split(text), LAMBDA w : count_syllables(w) >= threshold))
    /\ "count_syllables" \in DOMAIN res =>
          res["count_syllables"] = SumSyllables(Split(text))

\* the three counters have run on a text with a monosyllabic and a
\* polysyllabic token
C7_Witness ==
    /\ fpc = "count"
    /\ DOMAIN res = {"count_syllables", "count_monosyllables", "count_polysyllables"}
    /\ threshold >= 2
    /\ res["count_monosyllables"] >= 1
    /\ res["count_polysyllables"] >= 1

\* lowercase, no digit, no hyphen, only word characters and single spaces
IsNormalised(t) ==
    /\ \A i \in DOMAIN t :
          /\ ~IsUpper(t[i]) /\ ~IsDigit(t[i]) /\ t[i] # "-"
          /\ IsWordChar(t[i]) \/ t[i] = " "
    /\ \A i \in 1..(Len(t) - 1) : ~(IsSpace(t[i]) /\ IsSpace(t[i + 1]))

\* C8: what preprocessing returns is normalised, and preprocessing it again
\* returns it unchanged.
C8_Idempotent ==
    /\ fpc \in {"again", "end"} => IsNormalised(res["once"][1])
    /\ fpc = "end" => res["twice"] = res["once"]

\* a second call on a text the first call changed and did not empty
C8_Witness ==
    /\ fpc = "end"
    /\ res["once"][1] # text
    /\ Len(res["once"][1]) >= 2
    /\ \E i \in DOMAIN text : text[i] = "-"

\* the raw paragraph has no character that survives as part of a token
NoToken(raw) ==
    \A i \in DOMAIN raw : IsSpace(raw[i]) \/ IsDigit(raw[i]) \/ ~IsWordChar(raw[i])

CountColumns ==
    {"num_letters", "num_syllables", "num_monosyllables", "num_polysyllables_2",
     "num_polysyllables_3", "num_polysyllables_5", "num_long_3", "num_long_5",
     "num_long_8", "num_long_10", "num_long_15", "num_not_dale_chall"}
ScoreColumns ==
    {"flesch_reading_ease", "flesch_grade_level", "flesch_modified", "dale_chall_score"}

\* C9: no division raises (the only failure of a run is the unreadable word
\* list); in a finished run a row without tokens has num_words 0, every
\* per-word counter 0 and every score undefined, and the scores of a row
\* with words and sentences are finite.
C9_EmptyParagraph ==
    /\ wordlist_ok => pc # "error"
    /\ pc = "done" =>
          \A i \in DOMAIN df_raw :
              /\ NoToken(df_raw[i]) =>
                    /\ df_stats["num_words"][i] = 0
                    /\ \A c \in CountColumns : df_stats[c][i] = 0
                    /\ \A c \in ScoreColumns : df_stats[c][i].k # "fin"
              /\ (df_stats["num_words"][i] > 0 /\ df_stats["num_sentences"][i] > 0) =>
                    \A c \in ScoreColumns : df_stats[c][i].k = "fin"

\* a finished batch with a row without tokens and a row with words
C9_Witness ==
    /\ pc = "done"
    /\ \E i, j \in DOMAIN df_raw :
          /\ NoToken(df_raw[i]) /\ df_raw[i] # <<>>
          /\ df_stats["num_words"][j] > 0

\* C10: num_letters is the sum of the lengths of the tokens that num_words
\* counts.
C10_LettersAreTokenLengths ==
    HasCol("num_letters") =>
        \A i \in Rows :
            /\ df_stats["num_letters"][i] = SumLen(Split(df_text[i]))
            /\ df_stats["num_words"][i] = Len(Split(df_text[i]))

\* a finished run on a paragraph of two tokens separated by a removed
\* character
C10_Witness ==
    /\ pc = "done"
    /\ \E i \in Rows :
          /\ df_stats["num_words"][i] = 2
          /\ df_stats["num_letters"][i] = 2
          /\ Len(df_raw[i]) = 3 /\ df_raw[i][2] = "-"

=============================================================================
